---- MODULE Spec2Model ----
(***************************************************************************)
(* Model of ble_app/python-test/main.py: the session-per-shot workflow     *)
(* take_photo() driven by the interactive loop main().                     *)
(*                                                                         *)
(* The BLE transport (bleak's BleakClient) is the environment: every call  *)
(* into it may succeed, raise, or never complete.  What the program does   *)
(* to the transport and to stdout is recorded, per session, in trace; the  *)
(* lines the notification sink prints are recorded in notifyLog.           *)
(***************************************************************************)
EXTENDS Integers, Sequences, FiniteSets, TLC

\* ------------------------------------------------------------------ bounds
\* Number of take_photo() invocations the control loop may make.
MaxSessions == 2

\* Number of notifications the peripheral sends in all.
MaxNotifications == 2

SessionIds == 1..MaxSessions

\* --------------------------------------------------------------- constants
CAMERA_ADDR == "DC:FE:23:4A:E0:36"
PAIRING_HANDLE == "00050002-0000-1000-0000-d8492fffa821"
SHUTTER_HANDLE == "00050003-0000-1000-0000-d8492fffa821"
STATUS_CHAR_HANDLE == "00050004-0000-1000-0000-d8492fffa821"
STATUS_CCCD_HANDLE == "00050005-0000-1000-0000-d8492fffa821"

BUTTON_RELEASE == 128
IMMEDIATE == 12
DEVICE_NAME == <<"L", "I", "N", "U", "X">>

\* ------------------------------------------------------------ pure helpers
\* Python's ord() on the characters the program uses.
ord(c) ==
    CASE c = "L" -> 76
      [] c = "I" -> 73
      [] c = "N" -> 78
      [] c = "U" -> 85
      [] c = "X" -> 88

\* Python's int | int on non-negative integers, bit by bit.
RECURSIVE BitOr(_, _)
BitOr(a, b) ==
    IF a = 0 THEN b
    ELSE IF b = 0 THEN a
    ELSE (IF (a % 2) + (b % 2) > 0 THEN 1 ELSE 0) + 2 * BitOr(a \div 2, b \div 2)

\* map(ord, DEVICE_NAME)
MapOrd(name) == [i \in 1..Len(name) |-> ord(name[i])]

\* Variant of Lower that leaves upper-case letters as they are.
Lower_Identity(c) == c

\* str.lower() on the characters an input line is made of.
Lower(c) == IF c = "Q" THEN "q" ELSE c

\* str.strip(): leading and trailing blanks removed.
RECURSIVE LStrip(_)
LStrip(line) ==
    IF line # <<>> /\ Head(line) = " " THEN LStrip(Tail(line)) ELSE line

RECURSIVE RStrip(_)
RStrip(line) ==
    IF line # <<>> /\ line[Len(line)] = " "
    THEN RStrip(SubSeq(line, 1, Len(line) - 1))
    ELSE line

\* input(">> ").strip().lower()
StripLower(line) ==
    LET s == RStrip(LStrip(line)) IN [i \in 1..Len(s) |-> Lower(s[i])]

\* The lines the user may type: ENTER, q, " Q ", x.
InputLines == { <<>>, <<"q">>, <<" ", "Q", " ">>, <<"x">> }

\* ----------------------------------------------------------- notifications
\* Handle of the status characteristic (sender.handle in status_handler).
STATUS_CHAR_VALUE_HANDLE == 27

\* Payloads the peripheral may notify, and the readings of the clock.
NotifyPayloads == { <<170, 187>>, <<10>> }
Timestamps == {1, 2}

HexDigits ==
    <<"0", "1", "2", "3", "4", "5", "6", "7", "8", "9", "a", "b", "c", "d", "e", "f">>

\* format(n, "x"): lower-case hexadecimal without padding.
RECURSIVE FormatX(_)
FormatX(n) ==
    IF n < 16 THEN <<HexDigits[n + 1]>>
    ELSE FormatX(n \div 16) \o <<HexDigits[(n % 16) + 1]>>

\* Variant of BytesHex without zero padding of each byte.
RECURSIVE BytesHex_NoPad(_)
BytesHex_NoPad(data) ==
    IF data = <<>> THEN <<>>
    ELSE FormatX(Head(data)) \o BytesHex_NoPad(Tail(data))

\* bytearray.hex(): two lower-case hexadecimal digits per byte.
RECURSIVE BytesHex(_)
BytesHex(data) ==
    IF data = <<>> THEN <<>>
    ELSE <<HexDigits[(Head(data) \div 16) + 1], HexDigits[(Head(data) % 16) + 1]>>
             \o BytesHex(Tail(data))

\* --------------------------------------------------- transport call records
\* One entry of a session's trace: a call into the transport, a sleep, or a
\* line printed.  res is the call's outcome: "ok", "error" (it raised),
\* "not_connected" (connect returned without a link), "pending" (it has not
\* completed and never will by itself), "cancelled" (the task was cancelled
\* while suspended in it).
Call(op, handle, data, response, res) ==
    [op |-> op, handle |-> handle, data |-> data, response |-> response, res |-> res]

ConnectCall(res) == Call("connect", CAMERA_ADDR, <<>>, FALSE, res)
DisconnectCall(res) == Call("disconnect", CAMERA_ADDR, <<>>, FALSE, res)
WriteCall(handle, data, response, res) == Call("write", handle, data, response, res)
StartNotifyCall(res) == Call("start_notify", STATUS_CHAR_HANDLE, <<>>, FALSE, res)
StopNotifyCall(res) == Call("stop_notify", STATUS_CHAR_HANDLE, <<>>, FALSE, res)
SleepCall(ms, res) == Call("sleep", "", <<ms>>, FALSE, res)
Printed(msg) == Call("print", msg, <<>>, FALSE, "ok")

\* Variant of HandshakePayload without the leading version byte 0x03.
HandshakePayload_NoVersion == MapOrd(DEVICE_NAME)

\* Lines 36-37: the line status_handler prints for one notification, read at
\* clock reading ts.
status_handler(sender, data, ts) ==
    [tag |-> "[NOTIFY]", ts |-> ts, sender |-> FormatX(sender), payload |-> BytesHex(data)]

\* payload = bytearray([0x03]) + bytearray(map(ord, DEVICE_NAME))
HandshakePayload == <<3>> \o MapOrd(DEVICE_NAME)

\* Variant of ShutterPayload without the "| IMMEDIATE".
ShutterPayload_NoImmediate == <<BUTTON_RELEASE>>

FocusPayload == <<IMMEDIATE>>
ShutterPayload == <<BitOr(BUTTON_RELEASE, IMMEDIATE)>>
ReleasePayload == <<0>>
CccdPayload == <<2, 0>>

\* The call a coroutine suspended at position p is inside of.
CallAt(p, res) ==
    CASE p = "aenter" -> ConnectCall(res)
      [] p = "handshake" -> WriteCall(PAIRING_HANDLE, HandshakePayload, TRUE, res)
      [] p = "cccd" -> WriteCall(STATUS_CCCD_HANDLE, CccdPayload, TRUE, res)
      [] p = "start_notify" -> StartNotifyCall(res)
      [] p = "sleep05" -> SleepCall(500, res)
      [] p = "focus" -> WriteCall(SHUTTER_HANDLE, FocusPayload, FALSE, res)
      [] p = "sleep03" -> SleepCall(300, res)
      [] p = "shutter" -> WriteCall(SHUTTER_HANDLE, ShutterPayload, FALSE, res)
      [] p = "release" -> WriteCall(SHUTTER_HANDLE, ReleasePayload, FALSE, res)
      [] p = "stop_notify" -> StopNotifyCall(res)
      [] p = "aexit" -> DisconnectCall(res)

\* Positions of take_photo() suspended in a transport call / in a sleep.
TransportPcs ==
    {"aenter", "handshake", "cccd", "start_notify", "focus", "shutter",
     "release", "stop_notify", "aexit"}
SleepPcs == {"sleep05", "sleep03"}

\* Positions inside the body of the async with block (an exception raised
\* there unwinds through __aexit__).
BodyPcs == (TransportPcs \cup SleepPcs) \ {"aenter", "aexit"}

\* ------------------------------------------------------------------- state
VARIABLES
    mainPc,        \* main(): "input" | "await" | "done" | "crashed"
    cur,           \* number of take_photo() invocations made so far
    indications,   \* whether lines 98 and 102 of take_photo are uncommented
    pc,            \* pc[s]: position of take_photo() invocation s
    exc,           \* exc[s]: exception in flight in / raised by invocation s
    is_connected,  \* is_connected[s]: client.is_connected
    subscribed,    \* subscribed[s]: status_handler registered on the link
    hung,          \* hung[s]: suspended in a call that never completes
    typed,         \* the line input() returned last (line 110)
    delivered,     \* delivered[s]: payloads the transport handed to status_handler
    notifyLog,     \* notifyLog[s]: the lines status_handler printed
    trace          \* trace[s]: calls made and lines printed, in order

vars ==
    <<mainPc, cur, typed, indications, delivered, notifyLog, pc, exc, is_connected, subscribed,
      hung, trace>>

InitCommon ==
    /\ mainPc = "input"
    /\ cur = 0
    /\ pc = [s \in SessionIds |-> "idle"]
    /\ exc = [s \in SessionIds |-> "none"]
    /\ is_connected = [s \in SessionIds |-> FALSE]
    /\ subscribed = [s \in SessionIds |-> FALSE]
    /\ hung = [s \in SessionIds |-> FALSE]
    /\ typed = <<>>
    /\ delivered = [s \in SessionIds |-> <<>>]
    /\ notifyLog = [s \in SessionIds |-> <<>>]
    /\ trace = [s \in SessionIds |-> <<>>]

\* The program as committed: enable_indications / stop_notify commented out.
Init == InitCommon /\ indications = FALSE

\* The program with lines 98 and 102 uncommented, as their comments instruct.
InitInd == InitCommon /\ indications = TRUE

\* ----------------------------------------------------------------- helpers
Emit(s, entries) == trace' = [trace EXCEPT ![s] = @ \o entries]

Goto(s, p) == pc' = [pc EXCEPT ![s] = p]

\* An exception raised inside the async with body: unwind to __aexit__.
RaiseInBody(s, kind) ==
    /\ exc' = [exc EXCEPT ![s] = kind]
    /\ Goto(s, "aexit")

\* Entry of trigger_shutter: line 70 runs before the first await.
TriggerEntry == <<Printed("--- Triggering Shutter Sequence ---")>>

\* Line 103, after the last statement of the body.
BodyEnd == <<Printed("Disconnecting. Physical buttons unlocked.")>>

\* A transport call made at position p inside the async with body: when it
\* returns, okEntries are printed and control moves to okPc; when it raises,
\* the exception leaves the body at once.
BodyCall(s, p, okEntries, okPc) ==
    /\ pc[s] = p
    /\ ~hung[s]
    /\ \E res \in {"ok", "error"} :
         IF res = "ok"
         THEN /\ Emit(s, <<CallAt(p, "ok")>> \o okEntries)
              /\ Goto(s, okPc)
              /\ UNCHANGED exc
         ELSE /\ Emit(s, <<CallAt(p, "error")>>)
              /\ RaiseInBody(s, "BleakError")

\* ------------------------------------------------------------------ main()
\* Variant of MainInput that starts take_photo() without awaiting it (as
\* asyncio.create_task(take_photo()) would) and goes on reading input.
MainInput_NoAwait(line) ==
    /\ mainPc = "input"
    /\ IF StripLower(line) = <<"q">>
       THEN /\ mainPc' = "done"
            /\ UNCHANGED <<cur, pc>>
       ELSE /\ cur < MaxSessions
            /\ cur' = cur + 1
            /\ mainPc' = "input"
            /\ pc' = [pc EXCEPT ![cur + 1] = "aenter"]
    /\ typed' = line
    /\ UNCHANGED <<indications, delivered, notifyLog, exc, is_connected, subscribed, hung, trace>>

\* Lines 109-113: read a line; "q" ends the loop, anything else awaits
\* take_photo().
MainInput(line) ==
    /\ mainPc = "input"
    /\ IF StripLower(line) = <<"q">>
       THEN /\ mainPc' = "done"
            /\ UNCHANGED <<cur, pc>>
       ELSE /\ cur < MaxSessions
            /\ cur' = cur + 1
            /\ mainPc' = "await"
            /\ pc' = [pc EXCEPT ![cur + 1] = "aenter"]
    /\ typed' = line
    /\ UNCHANGED <<indications, delivered, notifyLog, exc, is_connected, subscribed, hung, trace>>

\* Line 113 completing: take_photo() returned, or its exception propagates
\* out of main() (there is no try/except), ending asyncio.run().
MainResume ==
    /\ mainPc = "await"
    /\ pc[cur] = "done"
    /\ mainPc' = IF exc[cur] = "none" THEN "input" ELSE "crashed"
    /\ UNCHANGED <<cur, typed, indications, delivered, notifyLog, pc, exc, is_connected, subscribed, hung, trace>>

\* ------------------------------------------------------------ take_photo()
\* Line 87, entering the async with: BleakClient.__aenter__ awaits connect().
\* An exception raised by __aenter__ leaves take_photo without __aexit__.
AEnter(s) ==
    /\ pc[s] = "aenter"
    /\ ~hung[s]
    /\ \E res \in {"ok", "not_connected", "error"} :
         /\ Emit(s, <<ConnectCall(res)>>)
         /\ is_connected' = [is_connected EXCEPT ![s] = (res = "ok")]
         /\ IF res = "error"
            THEN /\ exc' = [exc EXCEPT ![s] = "BleakError"]
                 /\ Goto(s, "done")
            ELSE /\ Goto(s, "check")
                 /\ UNCHANGED exc
    /\ UNCHANGED <<mainPc, cur, typed, indications, delivered, notifyLog, subscribed, hung>>

\* Variant of CheckConnected with the test of line 88 inverted.
CheckConnected_Inverted(s) ==
    /\ pc[s] = "check"
    /\ IF is_connected[s]
       THEN /\ Emit(s, <<Printed("Failed to connect to camera.")>>)
            /\ Goto(s, "aexit")
       ELSE /\ Emit(s, <<Printed("Connected to camera!")>>)
            /\ Goto(s, "handshake")
    /\ UNCHANGED <<mainPc, cur, typed, indications, delivered, notifyLog, exc, is_connected,
                   subscribed, hung>>

\* Variant of CheckConnected without the is_connected test of lines 88-90.
CheckConnected_NoCheck(s) ==
    /\ pc[s] = "check"
    /\ Emit(s, <<Printed("Connected to camera!")>>)
    /\ Goto(s, "handshake")
    /\ UNCHANGED <<mainPc, cur, typed, indications, delivered, notifyLog, exc, is_connected, subscribed, hung>>

\* Lines 88-91.
CheckConnected(s) ==
    /\ pc[s] = "check"
    /\ IF ~is_connected[s]
       THEN /\ Emit(s, <<Printed("Failed to connect to camera.")>>)
            /\ Goto(s, "aexit")
       ELSE /\ Emit(s, <<Printed("Connected to camera!")>>)
            /\ Goto(s, "handshake")
    /\ UNCHANGED <<mainPc, cur, typed, indications, delivered, notifyLog, exc, is_connected, subscribed, hung>>

\* Variant of Handshake in which a failed handshake write is swallowed and
\* the session carries on to the shutter sequence.
Handshake_IgnoreError(s) ==
    /\ pc[s] = "handshake"
    /\ ~hung[s]
    /\ \E res \in {"ok", "error"} :
         Emit(s, <<CallAt("handshake", res)>>
                    \o (IF res = "ok" THEN <<Printed("Handshake complete.")>> ELSE <<>>)
                    \o (IF indications THEN <<>> ELSE TriggerEntry))
    /\ Goto(s, IF indications THEN "cccd" ELSE "focus")
    /\ UNCHANGED <<mainPc, cur, typed, indications, delivered, notifyLog, exc, is_connected, subscribed, hung>>

\* Line 95, handshake() (lines 54-57).
Handshake(s) ==
    /\ BodyCall(s, "handshake",
                <<Printed("Handshake complete.")>>
                    \o (IF indications THEN <<>> ELSE TriggerEntry),
                IF indications THEN "cccd" ELSE "focus")
    /\ UNCHANGED <<mainPc, cur, typed, indications, delivered, notifyLog, is_connected, subscribed, hung>>

\* Variant of WriteCccd in which a failed CCCD write is swallowed and
\* enable_indications goes on to subscribe.
WriteCccd_IgnoreError(s) ==
    /\ pc[s] = "cccd"
    /\ ~hung[s]
    /\ \E res \in {"ok", "error"} : Emit(s, <<CallAt("cccd", res)>>)
    /\ Goto(s, "start_notify")
    /\ UNCHANGED <<mainPc, cur, typed, indications, delivered, notifyLog, exc, is_connected, subscribed, hung>>

\* Line 98 when uncommented, enable_indications() (lines 60-66).
WriteCccd(s) ==
    /\ BodyCall(s, "cccd", <<>>, "start_notify")
    /\ UNCHANGED <<mainPc, cur, typed, indications, delivered, notifyLog, is_connected, subscribed, hung>>

StartNotify(s) ==
    /\ BodyCall(s, "start_notify", <<>>, "sleep05")
    /\ subscribed' = [subscribed EXCEPT ![s] = (pc'[s] = "sleep05")]
    /\ UNCHANGED <<mainPc, cur, typed, indications, delivered, notifyLog, is_connected, hung>>

Sleep05(s) ==
    /\ pc[s] = "sleep05"
    /\ Emit(s, <<SleepCall(500, "ok"), Printed("Indications enabled.")>> \o TriggerEntry)
    /\ Goto(s, "focus")
    /\ UNCHANGED <<mainPc, cur, typed, indications, delivered, notifyLog, exc, is_connected, subscribed, hung>>

\* Variant of WriteFocus that goes from the half-press straight to the
\* release, leaving out the delay and the full press.
WriteFocus_SkipFullPress(s) ==
    /\ BodyCall(s, "focus", <<>>, "release")
    /\ UNCHANGED <<mainPc, cur, typed, indications, delivered, notifyLog, is_connected, subscribed, hung>>

\* Variant of Sleep03 sleeping 0.03 s instead of 0.3 s.
Sleep03_Short(s) ==
    /\ pc[s] = "sleep03"
    /\ Emit(s, <<SleepCall(30, "ok")>>)
    /\ Goto(s, "shutter")
    /\ UNCHANGED <<mainPc, cur, typed, indications, delivered, notifyLog, exc, is_connected, subscribed, hung>>

\* Variant of Sleep03 without the asyncio.sleep(0.3).
Sleep03_NoDelay(s) ==
    /\ pc[s] = "sleep03"
    /\ Goto(s, "shutter")
    /\ UNCHANGED <<mainPc, cur, typed, indications, delivered, notifyLog, exc, is_connected, subscribed, hung, trace>>

\* Line 99, trigger_shutter() (lines 69-82).
WriteFocus(s) ==
    /\ BodyCall(s, "focus", <<>>, "sleep03")
    /\ UNCHANGED <<mainPc, cur, typed, indications, delivered, notifyLog, is_connected, subscribed, hung>>

Sleep03(s) ==
    /\ pc[s] = "sleep03"
    /\ Emit(s, <<SleepCall(300, "ok")>>)
    /\ Goto(s, "shutter")
    /\ UNCHANGED <<mainPc, cur, typed, indications, delivered, notifyLog, exc, is_connected, subscribed, hung>>

WriteShutter(s) ==
    /\ BodyCall(s, "shutter", <<>>, "release")
    /\ UNCHANGED <<mainPc, cur, typed, indications, delivered, notifyLog, is_connected, subscribed, hung>>

WriteRelease(s) ==
    /\ BodyCall(s, "release",
                <<Printed("Shutter sequence complete.")>>
                    \o (IF indications THEN <<>> ELSE BodyEnd),
                IF indications THEN "stop_notify" ELSE "aexit")
    /\ UNCHANGED <<mainPc, cur, typed, indications, delivered, notifyLog, is_connected, subscribed, hung>>

\* Line 102 when uncommented.
StopNotify(s) ==
    /\ BodyCall(s, "stop_notify", BodyEnd, "aexit")
    /\ subscribed' = [subscribed EXCEPT ![s] = @ /\ exc'[s] # "none"]
    /\ UNCHANGED <<mainPc, cur, typed, indications, delivered, notifyLog, is_connected, hung>>

\* Line 87, leaving the async with: BleakClient.__aexit__ awaits
\* disconnect().  When disconnect() raises, whether the link is still up is
\* not determined by the program.
AExit(s) ==
    /\ pc[s] = "aexit"
    /\ ~hung[s]
    /\ \E res \in {"ok", "error"} :
         /\ Emit(s, <<DisconnectCall(res)>>)
         /\ exc' = [exc EXCEPT ![s] = IF res = "error" THEN "BleakError" ELSE @]
         /\ \E up \in (IF res = "ok" THEN {FALSE} ELSE {FALSE, is_connected[s]}) :
              /\ is_connected' = [is_connected EXCEPT ![s] = up]
              /\ subscribed' = [subscribed EXCEPT ![s] = @ /\ up]
    /\ Goto(s, "done")
    /\ UNCHANGED <<mainPc, cur, typed, indications, delivered, notifyLog, hung>>

\* ------------------------------------------------------------- environment
\* Notifications delivered so far, over all sessions.
RECURSIVE DeliveredUpTo(_)
DeliveredUpTo(n) ==
    IF n = 0 THEN 0 ELSE Len(delivered[n]) + DeliveredUpTo(n - 1)

TotalDelivered == DeliveredUpTo(MaxSessions)

\* Variant of Notify in which an exception of the sink is raised into the
\* session instead of staying in the transport's delivery context.
Notify_RaisesIntoSession(s, data, ts) ==
    /\ subscribed[s]
    /\ is_connected[s]
    /\ TotalDelivered < MaxNotifications
    /\ delivered' = [delivered EXCEPT ![s] = Append(@, data)]
    /\ notifyLog' = [notifyLog EXCEPT ![s] =
                        Append(@, status_handler(STATUS_CHAR_VALUE_HANDLE, data, ts))]
    /\ exc' = [exc EXCEPT ![s] = "BleakError"]
    /\ UNCHANGED <<mainPc, cur, typed, indications, pc, is_connected, subscribed, hung, trace>>

\* The transport delivers one notification of the status characteristic to
\* the registered sink, which prints it (lines 36-37, registered at line 64).
Notify(s, data, ts) ==
    /\ subscribed[s]
    /\ is_connected[s]
    /\ TotalDelivered < MaxNotifications
    /\ delivered' = [delivered EXCEPT ![s] = Append(@, data)]
    /\ notifyLog' = [notifyLog EXCEPT ![s] =
                        Append(@, status_handler(STATUS_CHAR_VALUE_HANDLE, data, ts))]
    /\ UNCHANGED <<mainPc, cur, typed, indications, pc, exc, is_connected, subscribed, hung, trace>>

\* A transport call that never completes: the program has no timeout around
\* any of its awaits, so the coroutine stays suspended in the call.  (The
\* connect of line 87 is left out: BleakClient bounds it by its own default
\* timeout and then raises, which AEnter covers.)
Hang(s) ==
    /\ pc[s] \in TransportPcs \ {"aenter"}
    /\ ~hung[s]
    /\ hung' = [hung EXCEPT ![s] = TRUE]
    /\ Emit(s, <<CallAt(pc[s], "pending")>>)
    /\ UNCHANGED <<mainPc, cur, typed, indications, delivered, notifyLog, pc, exc, is_connected, subscribed>>

\* Cancellation of the main task (asyncio.run on Ctrl-C) while take_photo()
\* is suspended: CancelledError is raised at the await.  Inside the async
\* with body it unwinds through __aexit__; inside __aenter__ it does not.
Cancel(s) ==
    /\ mainPc = "await"
    /\ s = cur
    /\ pc[s] \in {"aenter"} \cup BodyPcs
    /\ trace' = [trace EXCEPT ![s] =
                    (IF hung[s] THEN SubSeq(@, 1, Len(@) - 1) ELSE @)
                        \o <<CallAt(pc[s], "cancelled")>>]
    /\ hung' = [hung EXCEPT ![s] = FALSE]
    /\ exc' = [exc EXCEPT ![s] = "CancelledError"]
    /\ Goto(s, IF pc[s] = "aenter" THEN "done" ELSE "aexit")
    /\ UNCHANGED <<mainPc, cur, typed, indications, delivered, notifyLog, is_connected, subscribed>>

\* ---------------------------------------------------------- specifications
\* Steps of the program itself (each completes a call or runs to the next
\* await).
ProgramStep ==
    \/ MainResume
    \/ \E s \in SessionIds :
         \/ AEnter(s)
         \/ CheckConnected(s)
         \/ Handshake(s)
         \/ WriteFocus(s)
         \/ Sleep03(s)
         \/ WriteShutter(s)
         \/ WriteRelease(s)
         \/ AExit(s)

IndicationStep ==
    \E s \in SessionIds :
      \/ WriteCccd(s)
      \/ StartNotify(s)
      \/ Sleep05(s)
      \/ StopNotify(s)

EnvStep ==
    \/ \E line \in InputLines : MainInput(line)
    \/ \E s \in SessionIds : Hang(s) \/ Cancel(s)

Next == ProgramStep \/ EnvStep

NotifyStep ==
    \E s \in SessionIds, data \in NotifyPayloads, ts \in Timestamps : Notify(s, data, ts)

NextInd == ProgramStep \/ IndicationStep \/ EnvStep \/ NotifyStep

\* The program as committed.
Spec == Init /\ [][Next]_vars

\* The program with indications enabled (lines 98 and 102 uncommented).
SpecInd == InitInd /\ [][NextInd]_vars

\* The asyncio event loop runs every step of the program that is ready; the
\* user and the transport are under no obligation.
LiveSpec == Init /\ [][Next]_vars /\ WF_vars(ProgramStep)

\* ------------------------------------------------------ vocabulary of claims
Finished(s) == pc[s] = "done"
Active(s) == pc[s] \notin {"idle", "done"}

Entries(s) == 1..Len(trace[s])

\* The calls of session s, printed lines left out.
Calls(s) == SelectSeq(trace[s], LAMBDA e : e.op # "print")

NumOp(s, op) == Len(SelectSeq(trace[s], LAMBDA e : e.op = op))

IsShutterWrite(e) == e.op = "write" /\ e.handle = SHUTTER_HANDLE
IsHandshakeWrite(e) == e.op = "write" /\ e.handle = PAIRING_HANDLE

\* The payloads written to the shutter characteristic, in order.
ShutterPayloads(s) ==
    LET w == SelectSeq(trace[s], IsShutterWrite) IN [i \in 1..Len(w) |-> w[i].data]

IsPrefix(a, b) == Len(a) <= Len(b) /\ SubSeq(b, 1, Len(a)) = a

WasCancelled(s) == \E i \in Entries(s) : trace[s][i].res = "cancelled"
AllOk(s) == \A i \in Entries(s) : trace[s][i].res = "ok"
HandshakeFailed(s) ==
    \E i \in Entries(s) : IsHandshakeWrite(trace[s][i]) /\ trace[s][i].res = "error"
Subscribed(s) ==
    \E i \in Entries(s) : trace[s][i].op = "start_notify" /\ trace[s][i].res = "ok"

\* ------------------------------------------------------------------ claims

\* C1: in every take_photo session that ended without cancellation, whatever
\* transport call failed (connect included), disconnect was invoked exactly
\* once by the time the session's outcome reaches the caller.
C1_DisconnectExactlyOnce ==
    \A s \in SessionIds :
        (Finished(s) /\ ~WasCancelled(s)) => NumOp(s, "disconnect") = 1

\* C2: in every finished, uncancelled session, every attempted press write
\* (0x0C or 0x8C to the shutter characteristic) is followed by an attempted
\* Release write (0x00), also when the press write failed.
C2_ReleaseAlwaysAttempted ==
    \A s \in SessionIds :
        (Finished(s) /\ ~WasCancelled(s)) =>
            \A i \in Entries(s) :
                (IsShutterWrite(trace[s][i]) /\ trace[s][i].data \in {<<12>>, <<140>>}) =>
                    \E j \in Entries(s) :
                        /\ j > i
                        /\ IsShutterWrite(trace[s][j])
                        /\ trace[s][j].data = <<0>>

\* C3: a write to the shutter characteristic is attempted only after an
\* acknowledged handshake write of the same session; a session whose
\* handshake write failed attempts no shutter write and, once over, has
\* disconnected exactly once.
C3_NoShutterWriteBeforeHandshakeAck ==
    \A s \in SessionIds :
        /\ \A i \in Entries(s) :
               IsShutterWrite(trace[s][i]) =>
                   \E j \in 1..(i - 1) :
                       /\ IsHandshakeWrite(trace[s][j])
                       /\ trace[s][j].response
                       /\ trace[s][j].res = "ok"
        /\ HandshakeFailed(s) =>
               /\ ShutterPayloads(s) = <<>>
               /\ NumOp(s, "disconnect") <= 1
               /\ Finished(s) => NumOp(s, "disconnect") = 1

\* C3 witness: one session wrote to the shutter characteristic after its
\* handshake, and a later session ended after a failed handshake write with
\* one disconnect.
C3_Witness ==
    \E s1, s2 \in SessionIds :
        /\ Finished(s1) /\ Len(ShutterPayloads(s1)) = 3
        /\ Finished(s2) /\ HandshakeFailed(s2) /\ NumOp(s2, "disconnect") = 1

\* C4: every session ended by a cancellation has executed disconnect (and
\* stop_notify, if it had subscribed) before it is discarded.
C4_CancelRunsCleanup ==
    \A s \in SessionIds :
        (Finished(s) /\ WasCancelled(s)) =>
            /\ NumOp(s, "disconnect") >= 1
            /\ Subscribed(s) => NumOp(s, "stop_notify") >= 1

\* C5: at most one take_photo session is active and at most one link is
\* open at any time; while a session is active the loop is suspended
\* awaiting it, so a further invocation can only come after it.
C5_OneSessionAtATime ==
    /\ Cardinality({s \in SessionIds : Active(s)}) <= 1
    /\ Cardinality({s \in SessionIds : is_connected[s]}) <= 1
    /\ \A s \in SessionIds : Active(s) => (mainPc = "await" /\ cur = s)

\* C5 witness: a second session holds an open link after the first ended.
C5_Witness ==
    \E s \in SessionIds :
        /\ s > 1
        /\ Finished(s - 1)
        /\ Active(s)
        /\ is_connected[s]

\* C6: a session that ended without cancellation, failed or not, never ends
\* the control loop.
C6_LoopSurvivesFailedSession ==
    \A s \in SessionIds :
        (Finished(s) /\ ~WasCancelled(s)) => mainPc # "crashed"

\* C7: the payloads written to the shutter characteristic in a session are
\* always a prefix of Focus 0x0C, ShutterAndFocus 0x8C, Release 0x00.
C7_ShutterWriteOrder ==
    \A s \in SessionIds :
        IsPrefix(ShutterPayloads(s), << <<12>>, <<140>>, <<0>> >>)

\* C7 witness: a session that attempted all three shutter writes.
C7_Witness ==
    \E s \in SessionIds : Len(ShutterPayloads(s)) = 3

\* C8: a finished session in which every call returned normally made exactly
\* the calls connect, acknowledged handshake write, write 0x0C, 300 ms sleep,
\* write 0x8C, write 0x00, disconnect, and raised nothing.
C8_FailureFreeSessionTrace ==
    \A s \in SessionIds :
        (Finished(s) /\ AllOk(s)) =>
            /\ Calls(s) =
                 << Call("connect", "DC:FE:23:4A:E0:36", <<>>, FALSE, "ok"),
                    Call("write", "00050002-0000-1000-0000-d8492fffa821",
                         <<3, 76, 73, 78, 85, 88>>, TRUE, "ok"),
                    Call("write", "00050003-0000-1000-0000-d8492fffa821",
                         <<12>>, FALSE, "ok"),
                    Call("sleep", "", <<300>>, FALSE, "ok"),
                    Call("write", "00050003-0000-1000-0000-d8492fffa821",
                         <<140>>, FALSE, "ok"),
                    Call("write", "00050003-0000-1000-0000-d8492fffa821",
                         <<0>>, FALSE, "ok"),
                    Call("disconnect", "DC:FE:23:4A:E0:36", <<>>, FALSE, "ok") >>
            /\ exc[s] = "none"

\* C8 witness: a session finished with every call having returned normally.
C8_Witness ==
    \E s \in SessionIds : Finished(s) /\ AllOk(s) /\ exc[s] = "none"

\* C9: every started session eventually ends (or is cancelled by the user),
\* also when a transport call never completes by itself.
C9_EverySessionEnds ==
    \A s \in SessionIds : (pc[s] # "idle") ~> (Finished(s) \/ WasCancelled(s))

\* C10: in every finished, uncancelled session that subscribed to the status
\* characteristic, stop_notify was invoked exactly once, and before
\* disconnect.
C10_UnsubscribeOnceBeforeDisconnect ==
    \A s \in SessionIds :
        (Finished(s) /\ ~WasCancelled(s) /\ Subscribed(s)) =>
            /\ NumOp(s, "stop_notify") = 1
            /\ \A i, j \in Entries(s) :
                   (trace[s][i].op = "stop_notify" /\ trace[s][j].op = "disconnect")
                       => i < j

\* C11: in every session the ShutterAndFocus write is started right after a
\* completed sleep of at least 300 ms that itself follows the completed Focus
\* write, and the Release write is started right after the ShutterAndFocus
\* write has returned, with no sleep in between.
C11_FocusDelayThenNoDelay ==
    \A s \in SessionIds :
        LET c == Calls(s) IN
        \A i \in 1..Len(c) :
            /\ (IsShutterWrite(c[i]) /\ c[i].data = <<140>>) =>
                   /\ i >= 3
                   /\ c[i - 1].op = "sleep"
                   /\ c[i - 1].res = "ok"
                   /\ c[i - 1].data[1] >= 300
                   /\ IsShutterWrite(c[i - 2])
                   /\ c[i - 2].data = <<12>>
                   /\ c[i - 2].res = "ok"
            /\ (IsShutterWrite(c[i]) /\ c[i].data = <<0>>) =>
                   /\ i >= 2
                   /\ IsShutterWrite(c[i - 1])
                   /\ c[i - 1].data = <<140>>
                   /\ c[i - 1].res = "ok"

\* C11 witness: a failure-free session that made all three shutter writes.
C11_Witness ==
    \E s \in SessionIds :
        Finished(s) /\ AllOk(s) /\ ShutterPayloads(s) = << <<12>>, <<140>>, <<0>> >>

\* C12: in every finished, uncancelled session with a failed write, an error
\* reaches the caller, and when the failed write is a shutter write all three
\* phases through Release have been attempted.
C12_FirstErrorAndRemainingPhases ==
    \A s \in SessionIds :
        (Finished(s) /\ ~WasCancelled(s)) =>
            \A i \in Entries(s) :
                (trace[s][i].op = "write" /\ trace[s][i].res = "error") =>
                    /\ exc[s] # "none"
                    /\ IsShutterWrite(trace[s][i]) => Len(ShutterPayloads(s)) = 3

\* C13: a session makes at most one connect; when the connect did not yield a
\* link the session attempts no write at all and, once over, has reported
\* the failure (printed it, or raised it to the caller).
C13_ConnectFailureAborts ==
    \A s \in SessionIds :
        /\ NumOp(s, "connect") <= 1
        /\ (\E i \in Entries(s) :
                trace[s][i].op = "connect" /\ trace[s][i].res \in {"error", "not_connected"}) =>
               /\ NumOp(s, "write") = 0
               /\ Finished(s) =>
                      \/ exc[s] # "none"
                      \/ \E k \in Entries(s) :
                             trace[s][k] = Printed("Failed to connect to camera.")

\* C13 witness: one session ended after connect returned without a link, and
\* the next one ended after connect raised.
C13_Witness ==
    \E s1, s2 \in SessionIds :
        /\ Finished(s1) /\ trace[s1][1].res = "not_connected"
        /\ Finished(s2) /\ trace[s2][1].res = "error" /\ trace[s2][1].op = "connect"

\* C14: enable_indications subscribes only right after the acknowledged write
\* of [0x02, 0x00] to the status CCCD has returned, sleeps 500 ms only right
\* after the subscribe has returned, and returns to its caller (which then
\* enters trigger_shutter) only right after that sleep; a failed CCCD write
\* is followed by no subscribe.
C14_EnableIndicationsOrder ==
    \A s \in SessionIds :
        LET o == trace[s] IN
        /\ \A i \in 1..Len(o) :
               /\ o[i].op = "start_notify" =>
                      /\ i >= 2
                      /\ o[i].handle = "00050004-0000-1000-0000-d8492fffa821"
                      /\ o[i - 1] = Call("write", "00050005-0000-1000-0000-d8492fffa821",
                                         <<2, 0>>, TRUE, "ok")
               /\ (o[i].op = "sleep" /\ o[i].data = <<500>>) =>
                      /\ i >= 2
                      /\ o[i - 1].op = "start_notify"
                      /\ o[i - 1].res = "ok"
               /\ o[i] = Printed("Indications enabled.") =>
                      /\ i >= 2
                      /\ o[i - 1] = Call("sleep", "", <<500>>, FALSE, "ok")
               /\ o[i] = Printed("--- Triggering Shutter Sequence ---") =>
                      /\ i >= 2
                      /\ o[i - 1] = Printed("Indications enabled.")
        /\ (\E i \in 1..Len(o) :
                /\ o[i].op = "write"
                /\ o[i].handle = "00050005-0000-1000-0000-d8492fffa821"
                /\ o[i].res # "ok") => NumOp(s, "start_notify") = 0

\* C14 witness: enable_indications ran to its end and trigger_shutter began.
C14_Witness ==
    \E s \in SessionIds :
        \E i \in Entries(s) : trace[s][i] = Printed("--- Triggering Shutter Sequence ---")

\* C15: a session writes to the pairing characteristic at most once, always
\* the six bytes 0x03 'L' 'I' 'N' 'U' 'X' with acknowledgment required, and a
\* finished session that got a link wrote it exactly once.
C15_HandshakeWrittenOnce ==
    \A s \in SessionIds :
        LET h == SelectSeq(trace[s], IsHandshakeWrite) IN
        /\ Len(h) <= 1
        /\ \A i \in 1..Len(h) :
               /\ h[i].data = <<3, 76, 73, 78, 85, 88>>
               /\ Len(h[i].data) = 6
               /\ h[i].response
        /\ (Finished(s) /\ \E k \in Entries(s) : trace[s][k] = Printed("Connected to camera!"))
               => Len(h) = 1

\* C15 witness: a finished session whose handshake write was acknowledged.
C15_Witness ==
    \E s \in SessionIds :
        /\ Finished(s)
        /\ \E i \in Entries(s) : IsHandshakeWrite(trace[s][i]) /\ trace[s][i].res = "ok"

\* C16: IMMEDIATE is 0x0C and BUTTON_RELEASE 0x80; every write to the shutter
\* characteristic carries one byte and asks for no acknowledgment; the first
\* carries 0x0C, the second 0x8C (0x80 and 0x0C combined), the third 0x00.
C16_ShutterPayloadBytes ==
    /\ IMMEDIATE = 12
    /\ BUTTON_RELEASE = 128
    /\ \A s \in SessionIds :
           LET w == SelectSeq(trace[s], IsShutterWrite) IN
           \A i \in 1..Len(w) :
               /\ ~w[i].response
               /\ Len(w[i].data) = 1
               /\ i = 1 => w[i].data[1] = 12
               /\ i = 2 => w[i].data[1] = 128 + 12
               /\ i = 3 => w[i].data[1] = 0
               /\ i <= 3

\* C16 witness: all three shutter writes returned in one session.
C16_Witness ==
    \E s \in SessionIds :
        LET w == SelectSeq(trace[s], IsShutterWrite) IN
        Len(w) = 3 /\ \A i \in 1..3 : w[i].res = "ok"

\* Value of a lower-case hexadecimal digit.
DigitValue(c) ==
    CASE c = "0" -> 0 [] c = "1" -> 1 [] c = "2" -> 2 [] c = "3" -> 3
      [] c = "4" -> 4 [] c = "5" -> 5 [] c = "6" -> 6 [] c = "7" -> 7
      [] c = "8" -> 8 [] c = "9" -> 9 [] c = "a" -> 10 [] c = "b" -> 11
      [] c = "c" -> 12 [] c = "d" -> 13 [] c = "e" -> 14 [] c = "f" -> 15

\* The bytes a string of hexadecimal digits stands for, two digits a byte
\* (<<-1>> when the number of digits is odd).
FromHex(h) ==
    IF Len(h) % 2 = 1 THEN <<-1>>
    ELSE [i \in 1..(Len(h) \div 2) |->
              16 * DigitValue(h[2 * i - 1]) + DigitValue(h[2 * i])]

\* C17: the sink has printed exactly one line per delivered notification, in
\* delivery order; each line carries the payload's bytes unchanged (as
\* hexadecimal digits), the handle of the status characteristic and a clock
\* reading.
C17_SinkLogsEveryPayload ==
    \A s \in SessionIds :
        /\ Len(notifyLog[s]) = Len(delivered[s])
        /\ \A i \in 1..Len(notifyLog[s]) :
               /\ FromHex(notifyLog[s][i].payload) = delivered[s][i]
               /\ notifyLog[s][i].sender = <<"1", "b">>
               /\ notifyLog[s][i].ts \in Timestamps

\* C17 witness: two notifications with different payloads were delivered to
\* one session, the one-byte payload 0x0A among them.
C17_Witness ==
    \E s \in SessionIds :
        /\ Len(delivered[s]) = 2
        /\ delivered[s][1] # delivered[s][2]
        /\ \E i \in 1..2 : delivered[s][i] = <<10>>

\* C18: a notification delivery changes nothing of the session or of the
\* control loop (position, exception, link, calls made, lines printed), and
\* a finished session in which every call returned has made the same calls
\* whatever was delivered to the sink meanwhile.
C18_SinkSharesNoSessionState ==
    /\ [][(delivered' # delivered) =>
             UNCHANGED <<mainPc, cur, typed, pc, exc, is_connected, subscribed, hung, trace>>]_vars
    /\ [](\A s \in SessionIds :
             (Finished(s) /\ AllOk(s)) =>
                 /\ exc[s] = "none"
                 /\ Calls(s) =
                      << ConnectCall("ok"),
                         WriteCall(PAIRING_HANDLE, <<3, 76, 73, 78, 85, 88>>, TRUE, "ok"),
                         WriteCall(STATUS_CCCD_HANDLE, <<2, 0>>, TRUE, "ok"),
                         StartNotifyCall("ok"),
                         SleepCall(500, "ok"),
                         WriteCall(SHUTTER_HANDLE, <<12>>, FALSE, "ok"),
                         SleepCall(300, "ok"),
                         WriteCall(SHUTTER_HANDLE, <<140>>, FALSE, "ok"),
                         WriteCall(SHUTTER_HANDLE, <<0>>, FALSE, "ok"),
                         StopNotifyCall("ok"),
                         DisconnectCall("ok") >>)

\* C18 witness: a session that received a notification while it was running
\* has finished with every call having returned.
C18_Witness ==
    \E s \in SessionIds :
        Finished(s) /\ AllOk(s) /\ Len(delivered[s]) >= 1

\* The lines of InputLines that read "q" once blanks around them are removed
\* and letters are lower-cased.
QuitLines == { <<"q">>, <<" ", "Q", " ">> }

\* C19: when the loop reads a line, a quit line ends the loop and starts
\* nothing, and any other line starts exactly one take_photo session which
\* the loop then awaits; the loop is back at its prompt only once that
\* session has finished, and no session is running while it is at the prompt.
C19_QuitOrOneSession ==
    /\ [][(mainPc = "input" /\ mainPc' # "input") =>
             IF typed' \in QuitLines
             THEN /\ mainPc' = "done"
                  /\ UNCHANGED <<cur, pc, is_connected, trace>>
             ELSE /\ mainPc' = "await"
                  /\ cur' = cur + 1
                  /\ pc[cur'] = "idle"
                  /\ pc' = [pc EXCEPT ![cur'] = "aenter"]
                  /\ UNCHANGED <<is_connected, trace>>]_vars
    /\ [][(mainPc = "await" /\ mainPc' = "input") => Finished(cur)]_vars
    /\ [][typed' # typed => mainPc = "input"]_vars
    /\ [](mainPc \in {"input", "done"} => \A s \in SessionIds : ~Active(s))

\* C19 witness: after one finished session the loop was ended by " Q ".
C19_Witness ==
    /\ mainPc = "done"
    /\ typed = <<" ", "Q", " ">>
    /\ cur = 1
    /\ Finished(1)

\* C20: in every session, every write to a characteristic (handshake, CCCD,
\* shutter) comes after a connect that returned with a link and before any
\* disconnect of that session.
C20_WritesOnlyWhileConnected ==
    \A s \in SessionIds :
        \A i \in Entries(s) :
            trace[s][i].op = "write" =>
                /\ \E j \in 1..(i - 1) :
                       trace[s][j].op = "connect" /\ trace[s][j].res = "ok"
                /\ \A j \in 1..(i - 1) : trace[s][j].op # "disconnect"
                /\ \A j \in Entries(s) : trace[s][j].op = "disconnect" => j = Len(trace[s])

\* C20 witness: two successive sessions that each wrote the handshake, the
\* CCCD and the three shutter payloads and then disconnected.
C20_Witness ==
    \A s \in 1..2 :
        /\ Finished(s)
        /\ NumOp(s, "write") = 5
        /\ NumOp(s, "disconnect") = 1

====
